---------------------------- MODULE Spec2Model ----------------------------
(***************************************************************************)
(* Astro Inspector: a DevTools panel that walks the DOM of the inspected   *)
(* page into a snapshot tree, derives filtered / flattened views of it and *)
(* draws a highlight overlay in the page.                                  *)
(*                                                                         *)
(* Conventions of the model                                                *)
(*  - a JavaScript string that the code takes apart (paths, attribute      *)
(*    values) is a sequence of one-character strings;                      *)
(*  - a node id `node-${n}` is the number n (the prefix is constant and    *)
(*    ids are only ever compared for equality);                            *)
(*  - the static elements of the page are numbered 0..n in document order, *)
(*    0 is document.body;                                                  *)
(*  - the overlay elements are kept apart from the static elements; they  *)
(*    are the last children of body;                                       *)
(*  - every function injected with chrome.scripting.executeScript runs     *)
(*    synchronously inside the page, so it is one atomic action;           *)
(*  - a recursive operator names its arguments once in a LET (n == node)   *)
(*    so that each is evaluated once per call.                             *)
(***************************************************************************)
EXTENDS Integers, Sequences, FiniteSets

VARIABLES
    dom,             \* the inspected page: element -> [tagName, children, rect, attrs]
    overlay,         \* the elements with id __astro_devtools_highlight__ appended to body
    lastRun,         \* history: the last function executed inside the page, the
                     \* element it resolved and whether it found an overlay
    tabId,           \* chrome.devtools.inspectedWindow.tabId (0 when there is none)
    tree,            \* useState: current snapshot
    selectedNode,    \* useState: selected node
    showIslandsOnly, \* useState: islands-only flag
    expandedNodes,   \* useState: set of expanded node ids
    isLoading,       \* useState: loading flag
    error,           \* useState: error message
    builds,          \* executeScript(buildTreeInPage) calls not yet resumed by fetchTree;
                     \* `overlapped` is history: another call was in flight with it
    nFetch,          \* number of fetchTree invocations so far
    treeFrom,        \* history: the fetchTree invocation that installed `tree` (0: none)
    selectedFrom,    \* history: the invocation whose snapshot selectedNode is a
                     \* node of (0: none)
    keyEvent         \* history: the last keydown event given to handleKeyDown

pageVars == <<dom, overlay, lastRun>>
sessionVars == <<tree, selectedNode, showIslandsOnly, expandedNodes, isLoading, error>>
historyVars == <<treeFrom, selectedFrom, keyEvent>>
vars == <<dom, overlay, lastRun, tabId, tree, selectedNode, showIslandsOnly,
          expandedNodes, isLoading, error, builds, nFetch, treeFrom, selectedFrom,
          keyEvent>>

---------------------------------------------------------------------------
(* Bounds of the model *)

\* largest number of elements below document.body
MaxElems == 3
\* largest number of fetchTree invocations (mount included)
MaxFetch == 2

---------------------------------------------------------------------------
(* JavaScript values *)

Null == [type |-> "null"]
Undefined == [type |-> "undefined"]
JsStr(s) == [type |-> "string", s |-> s]
JsNum(n) == [type |-> "number", n |-> n]
JsObj(m) == [type |-> "object", map |-> m]
NoFramework == "undefined"
NaN == -1

\* `x || fallback` on a string-or-null value
Truthy(v) == v.type = "string" /\ Len(v.s) > 0

DigitChars == <<"0", "1", "2", "3", "4", "5", "6", "7", "8", "9">>

IsDigit(c) == \E k \in 1..10 : DigitChars[k] = c

DigitValue(c) == (CHOOSE k \in 1..10 : DigitChars[k] = c) - 1

\* template literal `${i}` of a non-negative integer
RECURSIVE IndexToString(_)
IndexToString(i) ==
    IF i < 10 THEN <<DigitChars[i + 1]>>
    ELSE IndexToString(i \div 10) \o <<DigitChars[(i % 10) + 1]>>

\* Number(s) of a string: "" is 0, a digit string its value, anything else NaN
RECURSIVE DigitsValue(_, _)
DigitsValue(s, acc) ==
    LET t == s
        a == acc
    IN  IF t = <<>> THEN a
        ELSE DigitsValue(Tail(t), a * 10 + DigitValue(Head(t)))

Number(s) ==
    IF s = <<>> THEN 0
    ELSE IF \A k \in 1..Len(s) : IsDigit(s[k]) THEN DigitsValue(s, 0)
    ELSE NaN

\* s.split(sep) for a one-character separator
RECURSIVE SplitFrom(_, _, _)
SplitFrom(s, sep, cur) ==
    LET t == s
        c == cur
    IN  IF t = <<>> THEN <<c>>
        ELSE IF Head(t) = sep THEN <<c>> \o SplitFrom(Tail(t), sep, <<>>)
        ELSE SplitFrom(Tail(t), sep, Append(c, Head(t)))

Split(s, sep) == SplitFrom(s, sep, <<>>)

\* s.includes(sub)
Includes(s, sub) ==
    \E k \in 0..(Len(s) - Len(sub)) : SubSeq(s, k + 1, k + Len(sub)) = sub

\* tagName.toLowerCase() on the tag names that occur
ToLowerCase(t) ==
    CASE t = "BODY" -> "body"
      [] t = "DIV" -> "div"
      [] t = "ASTRO-ISLAND" -> "astro-island"
      [] OTHER -> t

---------------------------------------------------------------------------
(* The inspected page *)

Body == 0

\* null where an element is expected
NoElement == -1

Elements(d) == DOMAIN d

\* element.children
Children(d, el) == d[el].children

\* element.getAttribute(name)
GetAttribute(d, el, name) ==
    IF name \in DOMAIN d[el].attrs THEN JsStr(d[el].attrs[name]) ELSE Null

\* element.getBoundingClientRect()
GetBoundingClientRect(d, el) ==
    LET r == d[el].rect
    IN  [left |-> r.left, top |-> r.top, width |-> r.width, height |-> r.height,
         right |-> r.left + r.width, bottom |-> r.top + r.height]


---------------------------------------------------------------------------
(* JSON.parse on the attribute texts that occur: whitespace, objects with  *)
(* string keys, strings without escapes, non-negative integers and null.   *)
(* A result is [ok, value, next]; ok = FALSE stands for the SyntaxError.   *)

ParseFail == [ok |-> FALSE, value |-> Undefined, next |-> 0]

RECURSIVE SkipWs(_, _)
SkipWs(s, i) ==
    LET j == i IN IF j <= Len(s) /\ s[j] = " " THEN SkipWs(s, j + 1) ELSE j

RECURSIVE DigitsEnd(_, _)
DigitsEnd(s, i) ==
    LET j == i IN IF j <= Len(s) /\ IsDigit(s[j]) THEN DigitsEnd(s, j + 1) ELSE j

RECURSIVE QuoteEnd(_, _)
QuoteEnd(s, i) ==
    LET j == i
    IN  IF j > Len(s) THEN 0 ELSE IF s[j] = "\"" THEN j ELSE QuoteEnd(s, j + 1)

ParseStringAt(s, i) ==
    IF i > Len(s) \/ s[i] # "\"" THEN ParseFail
    ELSE LET j == QuoteEnd(s, i + 1)
         IN  IF j = 0 THEN ParseFail
             ELSE [ok |-> TRUE, value |-> JsStr(SubSeq(s, i + 1, j - 1)), next |-> j + 1]

RECURSIVE ParseValueAt(_, _), ParseMembersAt(_, _, _)
ParseValueAt(s, i0) ==
    LET i == SkipWs(s, i0)
    IN  IF i > Len(s) THEN ParseFail
        ELSE IF s[i] = "{" THEN
            LET j == SkipWs(s, i + 1)
            IN  IF j <= Len(s) /\ s[j] = "}"
                THEN [ok |-> TRUE, value |-> JsObj(<<>>), next |-> j + 1]
                ELSE ParseMembersAt(s, j, <<>>)
        ELSE IF s[i] = "\"" THEN ParseStringAt(s, i)
        ELSE IF IsDigit(s[i]) THEN
            LET j == DigitsEnd(s, i)
            IN  [ok |-> TRUE, value |-> JsNum(DigitsValue(SubSeq(s, i, j - 1), 0)),
                 next |-> j]
        ELSE IF i + 3 <= Len(s) /\ SubSeq(s, i, i + 3) = <<"n", "u", "l", "l">>
            THEN [ok |-> TRUE, value |-> Null, next |-> i + 4]
        ELSE ParseFail

\* the members of an object from position i on, `map` holding those read so far
ParseMembersAt(s, i, members) ==
    LET map == members
        key == ParseStringAt(s, SkipWs(s, i))
    IN  IF ~key.ok THEN ParseFail
        ELSE LET c == SkipWs(s, key.next)
             IN  IF c > Len(s) \/ s[c] # ":" THEN ParseFail
                 ELSE LET val == ParseValueAt(s, c + 1)
                      IN  IF ~val.ok THEN ParseFail
                          ELSE LET map2 == [k \in DOMAIN map \cup {key.value.s} |->
                                              IF k = key.value.s THEN val.value ELSE map[k]]
                                   e == SkipWs(s, val.next)
                               IN  IF e > Len(s) THEN ParseFail
                                   ELSE IF s[e] = "}"
                                       THEN [ok |-> TRUE, value |-> JsObj(map2), next |-> e + 1]
                                   ELSE IF s[e] = ","
                                       THEN ParseMembersAt(s, e + 1, map2)
                                   ELSE ParseFail

JsonParse(s) ==
    LET r == ParseValueAt(s, 1)
    IN  IF r.ok /\ SkipWs(s, r.next) = Len(s) + 1 THEN r ELSE ParseFail

---------------------------------------------------------------------------
(* Tree Builder: buildTreeInPage *)

\* mutants of ChildPath: a one-based index; no separator
ChildPathOneBased(path, i) ==
    IF path # <<>> THEN path \o <<".">> \o IndexToString(i + 1) ELSE IndexToString(i + 1)

ChildPathNoDot(path, i) ==
    IF path # <<>> THEN path \o IndexToString(i) ELSE IndexToString(i)

\* `path ? `${path}.${i}` : `${i}``
ChildPath(path, i) ==
    IF path # <<>> THEN path \o <<".">> \o IndexToString(i) ELSE IndexToString(i)

\* clientDirective = element.getAttribute("client") || "load"
ClientDirective(d, el) ==
    LET c == GetAttribute(d, el, "client")
    IN  IF Truthy(c) THEN c ELSE JsStr(<<"l", "o", "a", "d">>)

\* props: parsed only when the attribute is non-empty and not literally "{}"
ParseProps(d, el) ==
    LET propsAttr == GetAttribute(d, el, "props")
    IN  IF Truthy(propsAttr) /\ propsAttr.s # <<"{", "}">>
        THEN LET r == JsonParse(propsAttr.s)
             IN  IF r.ok THEN r.value ELSE Undefined
        ELSE Undefined

\* framework from the renderer-url, first match wins
DetectFramework(d, el) ==
    LET a == GetAttribute(d, el, "renderer-url")
        renderer == IF Truthy(a) THEN a.s ELSE <<>>
    IN  IF Includes(renderer, <<"r", "e", "a", "c", "t">>)
           \/ Includes(renderer, <<"c", "l", "i", "e", "n", "t", ".", "C">>)
        THEN "React"
        ELSE IF Includes(renderer, <<"v", "u", "e">>) THEN "Vue"
        ELSE IF Includes(renderer, <<"s", "v", "e", "l", "t", "e">>) THEN "Svelte"
        ELSE IF Includes(renderer, <<"s", "o", "l", "i", "d">>) THEN "Solid"
        ELSE IF Includes(renderer, <<"p", "r", "e", "a", "c", "t">>) THEN "Preact"
        ELSE NoFramework

\* buildTree(element, depth, path) with the counter nodeId threaded through:
\* the result is [node, nodeId] where nodeId is the counter after the call.
\* componentName is left out (no property of the model reads it); `src` is a
\* history field naming the element the node was built from.
RECURSIVE BuildTree(_, _, _, _, _), BuildChildren(_, _, _, _, _, _)
BuildTree(d, element, depth, path, nodeId) ==
    LET el == element
        dp == depth
        pt == path
        id == nodeId
        tagName == ToLowerCase(d[el].tagName)
        isIsland == tagName = "astro-island"
        kids == BuildChildren(d, Children(d, el), 0, dp, pt, id + 1)
    IN  [node |->
            [id |-> id,
             tagName |-> tagName,
             isAstroIsland |-> isIsland,
             clientDirective |-> IF isIsland THEN ClientDirective(d, el) ELSE Undefined,
             props |-> IF isIsland THEN ParseProps(d, el) ELSE Undefined,
             framework |-> IF isIsland THEN DetectFramework(d, el) ELSE NoFramework,
             children |-> kids.nodes,
             depth |-> dp,
             path |-> pt,
             src |-> el],
         nodeId |-> kids.nodeId]

\* Array.from(element.children).forEach((child, i) => node.children.push(...))
\* from index i on; depth and path are the parent's
BuildChildren(d, children, i, depth, path, nodeId) ==
    LET cs == children
        dp == depth
        pt == path
        id == nodeId
    IN  IF i >= Len(cs) THEN [nodes |-> <<>>, nodeId |-> id]
        ELSE LET first == BuildTree(d, cs[i + 1], dp + 1, ChildPath(pt, i), id)
                 rest == BuildChildren(d, cs, i + 1, dp, pt, first.nodeId)
             IN  [nodes |-> <<first.node>> \o rest.nodes, nodeId |-> rest.nodeId]

\* the nodes of the overlays appended to body, the first of them being child i of
\* body: a div that holds the label, a div
RECURSIVE BuildOverlays(_, _, _)
BuildOverlays(ov, i, nodeId) ==
    LET o == ov
        id == nodeId
        Div(n, dp, pt, kids) ==
            [id |-> n, tagName |-> "div", isAstroIsland |-> FALSE,
             clientDirective |-> Undefined, props |-> Undefined,
             framework |-> NoFramework, children |-> kids,
             depth |-> dp, path |-> pt, src |-> NoElement]
    IN  IF o = <<>> THEN <<>>
        ELSE <<Div(id, 1, ChildPath(<<>>, i),
                   <<Div(id + 1, 2, ChildPath(ChildPath(<<>>, i), 0), <<>>)>>)>>
             \o BuildOverlays(Tail(o), i + 1, id + 2)

\* buildTree(document.body, 0, ""): body's children are the static elements
\* and, after them, the overlays
BuildTreeInPage(d, ov) ==
    LET static == BuildTree(d, Body, 0, <<>>, 0)
    IN  [static.node EXCEPT
            !.children = @ \o BuildOverlays(ov, Len(@), static.nodeId)]

---------------------------------------------------------------------------
(* Tree Model & Filters *)

RECURSIVE hasIslandDescendant(_)
hasIslandDescendant(node) ==
    LET n == node
    IN  IF n.isAstroIsland THEN TRUE
        ELSE \E k \in 1..Len(n.children) : hasIslandDescendant(n.children[k])

\* collectExpandedNodes(node, result): the ids it adds to result
RECURSIVE collectExpandedNodes(_)
\* mutant of collectExpandedNodes: every child is entered
collectEveryChild(node) ==
    LET n == node
    IN  {n.id} \cup
        UNION {collectExpandedNodes(n.children[k]) : k \in 1..Len(n.children)}

collectExpandedNodes(node) ==
    LET n == node
    IN  {n.id} \cup
        UNION {IF hasIslandDescendant(n.children[k])
               THEN collectExpandedNodes(n.children[k]) ELSE {}
               : k \in 1..Len(n.children)}

RECURSIVE flattenVisibleTree(_, _), flattenChildren(_, _, _)
\* mutant of flattenVisibleTree: the children of a collapsed node are listed too
flattenIgnoringCollapse(node, expanded) ==
    LET n == node
    IN  <<n>> \o flattenChildren(n.children, 1, expanded)

flattenVisibleTree(node, expanded) ==
    LET n == node
    IN  <<n>> \o (IF n.id \in expanded
                  THEN flattenChildren(n.children, 1, expanded) ELSE <<>>)

flattenChildren(children, k, expanded) ==
    LET cs == children
    IN  IF k > Len(cs) THEN <<>>
        ELSE flattenVisibleTree(cs[k], expanded) \o flattenChildren(cs, k + 1, expanded)

\* node.children.map(f).filter(c => c !== null) for f = filter
RECURSIVE filter(_), filterChildren(_, _)
\* mutants of filter: an island kept with its whole subtree; a non-island
\* node kept although none of its children survives
filterIslandVerbatim(node) ==
    LET n == node
        filteredChildren == filterChildren(n.children, 1)
    IN  IF n.isAstroIsland THEN n
        ELSE IF Len(filteredChildren) > 0 THEN [n EXCEPT !.children = filteredChildren]
        ELSE Null

filterKeepsChildless(node) ==
    LET n == node
    IN  [n EXCEPT !.children = filterChildren(n.children, 1)]

filter(node) ==
    LET n == node
        filteredChildren == filterChildren(n.children, 1)
    IN  IF n.isAstroIsland THEN [n EXCEPT !.children = filteredChildren]
        ELSE IF Len(filteredChildren) > 0 THEN [n EXCEPT !.children = filteredChildren]
        ELSE Null

filterChildren(children, k) ==
    LET cs == children
    IN  IF k > Len(cs) THEN <<>>
        ELSE LET c == filter(cs[k])
             IN  (IF c # Null THEN <<c>> ELSE <<>>) \o filterChildren(cs, k + 1)

\* useMemo filteredTree
filteredTree ==
    IF tree = Null THEN Null
    ELSE IF ~showIslandsOnly THEN tree
    ELSE filter(tree)

\* useMemo visibleNodes
visibleNodes ==
    LET shown == filteredTree
    IN  IF shown = Null THEN <<>> ELSE flattenVisibleTree(shown, expandedNodes)

\* expandAll's collect: every id of the tree
RECURSIVE collect(_)
collect(node) ==
    LET n == node
    IN  {n.id} \cup UNION {collect(n.children[k]) : k \in 1..Len(n.children)}

\* findParent(root, targetId, parent): the node whose child has the id, or null
RECURSIVE findParent(_, _, _), findParentAmong(_, _, _)
\* mutant of findParent: the root is taken for the parent of every other node
findParentRoot(root, targetId, parent) ==
    IF root.id = targetId THEN parent ELSE root

findParent(root, targetId, parent) ==
    LET r == root
        p == parent
    IN  IF r.id = targetId THEN p ELSE findParentAmong(r, targetId, 1)

\* for (const child of root.children) from the k-th child on
findParentAmong(root, targetId, k) ==
    LET r == root
    IN  IF k > Len(r.children) THEN Null
        ELSE LET found == findParent(r.children[k], targetId, r)
             IN  IF found # Null THEN found ELSE findParentAmong(r, targetId, k + 1)

---------------------------------------------------------------------------
(* Highlighter: the functions injected into the page *)

\* element.children[index] || null
ChildAt(d, element, index) ==
    IF element # NoElement /\ index >= 0 /\ index < Len(Children(d, element))
    THEN Children(d, element)[index + 1]
    ELSE NoElement

\* for (const index of indices) { if (!element) break; element = ... }
RECURSIVE Descend(_, _, _)
Descend(d, element, indices) ==
    LET el == element
        ix == indices
    IN  IF ix = <<>> \/ el = NoElement THEN el
        ELSE Descend(d, ChildAt(d, el, Head(ix)), Tail(ix))

\* elementPath.split(".").map(Number)
PathIndices(elementPath) ==
    LET parts == Split(elementPath, ".")
    IN  [k \in 1..Len(parts) |-> Number(parts[k])]

\* "Find the element by path"
ResolvePath(d, elementPath) ==
    IF elementPath # <<>> THEN Descend(d, Body, PathIndices(elementPath)) ELSE Body

\* the accumulators minX, minY (start Infinity) and maxX, maxY (start -Infinity)
Unset == [set |-> FALSE, v |-> 0]
MathMin(acc, x) ==
    LET a == acc IN [set |-> TRUE, v |-> IF a.set /\ a.v < x THEN a.v ELSE x]
MathMax(acc, x) ==
    LET a == acc IN [set |-> TRUE, v |-> IF a.set /\ a.v > x THEN a.v ELSE x]

\* calculateBounds(el): el itself, then "Also check children"
RECURSIVE calculateBounds(_, _, _), calculateBoundsOfChildren(_, _, _, _)
\* mutant of calculateBounds: below the direct children nothing is visited
calculateBoundsDirectChildren(d, el, acc) ==
    LET Own(e, a0) ==
            LET a == a0
                r == GetBoundingClientRect(d, e)
            IN  IF r.width > 0 /\ r.height > 0
                THEN [minX |-> MathMin(a.minX, r.left), minY |-> MathMin(a.minY, r.top),
                      maxX |-> MathMax(a.maxX, r.right), maxY |-> MathMax(a.maxY, r.bottom)]
                ELSE a
        RECURSIVE Each(_, _)
        Each(k, a) ==
            LET b == a
            IN  IF k > Len(Children(d, el)) THEN b
                ELSE Each(k + 1, Own(Children(d, el)[k], b))
    IN  Each(1, Own(el, acc))

calculateBounds(d, el, acc) ==
    LET e == el
        a == acc
        r == GetBoundingClientRect(d, e)
        own == IF r.width > 0 /\ r.height > 0
               THEN [minX |-> MathMin(a.minX, r.left), minY |-> MathMin(a.minY, r.top),
                     maxX |-> MathMax(a.maxX, r.right), maxY |-> MathMax(a.maxY, r.bottom)]
               ELSE a
    IN  calculateBoundsOfChildren(d, Children(d, e), 1, own)

calculateBoundsOfChildren(d, children, k, acc) ==
    LET cs == children
        a == acc
    IN  IF k > Len(cs) THEN a
        ELSE calculateBoundsOfChildren(d, cs, k + 1, calculateBounds(d, cs[k], a))

\* mutant of HighlightRect: descendants are visited only when both dimensions
\* are zero
HighlightRectBothZero(d, element) ==
    LET rect == GetBoundingClientRect(d, element)
    IN  IF (rect.width = 0 /\ rect.height = 0) /\ Len(Children(d, element)) > 0
        THEN LET b == calculateBounds(d, element,
                         [minX |-> Unset, minY |-> Unset, maxX |-> Unset, maxY |-> Unset])
             IN  IF b.minX.set
                 THEN [top |-> b.minY.v, left |-> b.minX.v,
                       right |-> b.maxX.v, bottom |-> b.maxY.v,
                       width |-> b.maxX.v - b.minX.v, height |-> b.maxY.v - b.minY.v]
                 ELSE rect
        ELSE rect

\* the rectangle highlightElement ends up with for a resolved element
HighlightRect(d, element) ==
    LET rect == GetBoundingClientRect(d, element)
    IN  IF (rect.width = 0 \/ rect.height = 0) /\ Len(Children(d, element)) > 0
        THEN LET b == calculateBounds(d, element,
                         [minX |-> Unset, minY |-> Unset, maxX |-> Unset, maxY |-> Unset])
             IN  IF b.minX.set
                 THEN [top |-> b.minY.v, left |-> b.minX.v,
                       right |-> b.maxX.v, bottom |-> b.maxY.v,
                       width |-> b.maxX.v - b.minX.v, height |-> b.maxY.v - b.minY.v]
                 ELSE rect
        ELSE rect

\* mutant of RemoveExisting: the earlier overlay is left in the page
RemoveNothing(ov) == ov

\* const existing = document.getElementById(...); if (existing) existing.remove()
RemoveExisting(ov) == IF ov # <<>> THEN Tail(ov) ELSE ov

\* mutant of HighlightInPage: the path is resolved before anything is removed
HighlightResolveFirst(d, ov, elementPath) ==
    LET element == ResolvePath(d, elementPath)
    IN  IF element = NoElement THEN ov
        ELSE LET rect == HighlightRect(d, element)
             IN  IF rect.width = 0 \/ rect.height = 0 THEN RemoveExisting(ov)
                 ELSE Append(RemoveExisting(ov),
                             [top |-> rect.top, left |-> rect.left,
                              width |-> rect.width, height |-> rect.height])

\* the whole function highlightElement injects: the overlays of the page after it
HighlightInPage(d, ov, elementPath) ==
    LET removed == RemoveExisting(ov)
        element == ResolvePath(d, elementPath)
    IN  IF element = NoElement THEN removed
        ELSE LET rect == HighlightRect(d, element)
             IN  IF rect.width = 0 \/ rect.height = 0 THEN removed
                 ELSE Append(removed, [top |-> rect.top, left |-> rect.left,
                                       width |-> rect.width, height |-> rect.height])

\* the function clearHighlight injects
ClearInPage(ov) == RemoveExisting(ov)

\* findVisibleChild(el): el or the first descendant, depth first, with a box
RECURSIVE findVisibleChild(_, _), findVisibleAmong(_, _, _)
findVisibleChild(d, el) ==
    LET e == el
        rect == GetBoundingClientRect(d, e)
    IN  IF rect.width > 0 /\ rect.height > 0 THEN e
        ELSE findVisibleAmong(d, Children(d, e), 1)

findVisibleAmong(d, children, k) ==
    LET cs == children
    IN  IF k > Len(cs) THEN NoElement
        ELSE LET visible == findVisibleChild(d, cs[k])
             IN  IF visible # NoElement THEN visible
                 ELSE findVisibleAmong(d, cs, k + 1)

\* the function scrollToElement injects: the element scrolled into view, if any
ScrollInPage(d, elementPath) ==
    LET element == ResolvePath(d, elementPath)
    IN  IF element = NoElement THEN NoElement
        ELSE IF ToLowerCase(d[element].tagName) = "astro-island"
                /\ Len(Children(d, element)) > 0
        THEN LET visibleChild == findVisibleChild(d, element)
             IN  IF visibleChild # NoElement THEN visibleChild ELSE element
        ELSE element

---------------------------------------------------------------------------
(* Pages the model starts from *)

RECURSIVE AncOrSelf(_, _)
AncOrSelf(p, i) == IF i = 0 THEN {0} ELSE {i} \cup AncOrSelf(p, p[i])

\* parent functions of the ordered trees on 0..n, elements numbered in document order
Shapes(n) ==
    {p \in [1..n -> 0..(n - 1)] :
        \A i \in 1..n : p[i] < i /\ (i > 1 => p[i] \in AncOrSelf(p, i - 1))}

ChildrenOf(p, n, e) ==
    LET isChild(i) == p[i] = e
    IN  SelectSeq([i \in 1..n |-> i], isChild)

ZeroRect == [left |-> 0, top |-> 0, width |-> 0, height |-> 0]
SizedRect(e) == [left |-> 5 + 3 * e, top |-> 10 - 2 * e, width |-> 10 - e, height |-> 4 + 3 * e]
FlatRect(e) == [SizedRect(e) EXCEPT !.height = 0]

NoAttrs == <<>>

MkDom(p, n, tags, rects, attrs) ==
    [e \in 0..n |->
        [tagName |-> IF e = 0 THEN "BODY" ELSE tags[e],
         children |-> ChildrenOf(p, n, e),
         rect |-> rects[e],
         attrs |-> attrs[e]]]

\* every shape, every element below body an island or a div
DomsTree ==
    UNION {{MkDom(p, n, t, [e \in 0..n |-> SizedRect(e)], [e \in 0..n |-> NoAttrs])
            : p \in Shapes(n), t \in [1..n -> {"DIV", "ASTRO-ISLAND"}]}
           : n \in 0..MaxElems}

\* body alone, or with one child
DomsFew == {d \in DomsTree : \A e \in DOMAIN d : e <= 1}

\* every shape, every element without box, flat or with a box of its own
RectChoice(kind, e) ==
    CASE kind = "zero" -> ZeroRect
      [] kind = "flat" -> FlatRect(e)
      [] OTHER -> SizedRect(e)

DomsRects ==
    UNION {{MkDom(p, n, [e \in 1..n |-> IF e % 2 = 1 THEN "ASTRO-ISLAND" ELSE "DIV"],
                  [e \in 0..n |-> RectChoice(r[e], e)], [e \in 0..n |-> NoAttrs])
            : p \in Shapes(n),
              r \in [0..n -> {"zero", "flat", "sized"}]}
           : n \in 0..MaxElems}


\* texts of the props attribute: empty, the literal {}, {} with a blank inside,
\* one property, malformed
EmptyText == <<>>
EmptyObjectText == <<"{", "}">>
SpacedEmptyObjectText == <<"{", " ", "}">>
OnePropText == <<"{", "\"", "a", "\"", ":", "1", "}">>
MalformedText == <<"{">>

PropsInputs == {Null} \cup {JsStr(t) : t \in {EmptyText, EmptyObjectText, SpacedEmptyObjectText, OnePropText, MalformedText}}

\* renderer-url of the integrations' client renderers, a hashed production bundle
\* name, and a url naming no framework
ReactRenderer == <<"@", "a", "s", "t", "r", "o", "j", "s", "/", "r", "e", "a", "c", "t", "/", "c", "l", "i", "e", "n", "t", ".", "j", "s">>
VueRenderer == <<"@", "a", "s", "t", "r", "o", "j", "s", "/", "v", "u", "e", "/", "c", "l", "i", "e", "n", "t", ".", "j", "s">>
SvelteRenderer == <<"@", "a", "s", "t", "r", "o", "j", "s", "/", "s", "v", "e", "l", "t", "e", "/", "c", "l", "i", "e", "n", "t", ".", "j", "s">>
SolidRenderer == <<"@", "a", "s", "t", "r", "o", "j", "s", "/", "s", "o", "l", "i", "d", "-", "j", "s", "/", "c", "l", "i", "e", "n", "t", ".", "j", "s">>
PreactRenderer == <<"@", "a", "s", "t", "r", "o", "j", "s", "/", "p", "r", "e", "a", "c", "t", "/", "c", "l", "i", "e", "n", "t", ".", "j", "s">>
BuiltReactRenderer == <<"/", "_", "a", "s", "t", "r", "o", "/", "c", "l", "i", "e", "n", "t", ".", "C", "x", ".", "j", "s">>
UnknownRenderer == <<"/", "_", "a", "s", "t", "r", "o", "/", "c", "l", "i", "e", "n", "t", ".", "j", "s">>

RendererInputs == {Null} \cup {JsStr(t) : t \in {ReactRenderer, VueRenderer, SvelteRenderer, SolidRenderer, PreactRenderer, BuiltReactRenderer, UnknownRenderer}}

ClientInputs == {Null, JsStr(<<"i", "d", "l", "e">>)}

\* the attributes of one island: name -> text, for those that are present
MkAttrs(client, props, renderer) ==
    LET given == [client |-> client, props |-> props, renderer |-> renderer]
        nameOf == [client |-> "client", props |-> "props", renderer |-> "renderer-url"]
        present == {f \in {"client", "props", "renderer"} : given[f] # Null}
    IN  [a \in {nameOf[f] : f \in present} |->
            given[CHOOSE f \in present : nameOf[f] = a].s]

AttrChoices ==
    {MkAttrs(c, pr, re) : c \in ClientInputs, pr \in PropsInputs, re \in RendererInputs}

\* body with one island as its child, the island with any of the attributes
DomsAttrs ==
    {MkDom(<<0>>, 1, <<"ASTRO-ISLAND">>, [e \in 0..1 |-> SizedRect(e)],
           [e \in 0..1 |-> IF e = 0 THEN NoAttrs ELSE a])
     : a \in AttrChoices}

---------------------------------------------------------------------------
(* Initial states *)

NoError == "null"
NoRun == [kind |-> "none", path |-> <<>>, element |-> NoElement, existing |-> FALSE]
NoKeyEvent == [key |-> "none", defaultPrevented |-> FALSE]

\* the panel as constructed by App's useState calls, the page untouched
InitPanel ==
    /\ overlay = <<>>
    /\ lastRun = NoRun
    /\ tabId \in {0, 1}
    /\ tree = Null
    /\ selectedNode = Null
    /\ showIslandsOnly = FALSE
    /\ expandedNodes = {}
    /\ isLoading = TRUE
    /\ error = NoError
    /\ builds = {}
    /\ nFetch = 0
    /\ treeFrom = 0
    /\ selectedFrom = 0
    /\ keyEvent = NoKeyEvent

Init == dom \in DomsTree /\ InitPanel
InitFew == dom \in DomsFew /\ InitPanel
InitAttrs == dom \in DomsAttrs /\ InitPanel
InitRects == dom \in DomsRects /\ InitPanel

---------------------------------------------------------------------------
(* Session Controller: fetchTree *)

\* fetchTree up to its await: with no inspected tab it ends at once
FetchTreeStart ==
    /\ nFetch < MaxFetch
    /\ nFetch' = nFetch + 1
    /\ IF tabId = 0
       THEN /\ error' = "No inspected tab found"
            /\ isLoading' = FALSE
            /\ UNCHANGED builds
       ELSE /\ error' = NoError
            /\ isLoading' = TRUE
            /\ builds' = {[b EXCEPT !.overlapped = TRUE] : b \in builds} \cup
                          {[n |-> nFetch + 1, status |-> "sent", result |-> Null,
                            overlapped |-> builds # {}]}
    /\ UNCHANGED <<pageVars, tabId, tree, selectedNode, showIslandsOnly, expandedNodes,
                   historyVars>>

\* useEffect(() => { fetchTree() }, [fetchTree])
Mount == nFetch = 0 /\ FetchTreeStart

\* Toolbar onRefresh
Refresh == nFetch > 0 /\ FetchTreeStart

Settle(b, status, result) ==
    /\ b.status = "sent"
    /\ builds' = (builds \ {b}) \cup {[b EXCEPT !.status = status, !.result = result]}
    /\ UNCHANGED <<pageVars, tabId, sessionVars, nFetch, historyVars>>

\* the page runs buildTreeInPage and the call is fulfilled with its tree
PageBuildTree == \E b \in builds : Settle(b, "fulfilled", BuildTreeInPage(dom, overlay))

\* the call is fulfilled without a result (results?.[0]?.result is undefined)
PageBuildNoResult == \E b \in builds : Settle(b, "fulfilled", Null)

\* the call is rejected (the target went away)
PageBuildRejected == \E b \in builds : Settle(b, "rejected", Null)

\* mutant of FetchTreeResume: a rejected call is not caught
FetchTreeResumeNoCatch ==
    \E b \in builds :
        /\ b.status # "sent"
        /\ builds' = builds \ {b}
        /\ isLoading' = FALSE
        /\ IF b.status = "rejected"
           THEN UNCHANGED <<error, tree, expandedNodes, treeFrom>>
           ELSE IF b.result = Null
           THEN /\ error' = "Failed to get component tree from page"
                /\ UNCHANGED <<tree, expandedNodes, treeFrom>>
           ELSE /\ tree' = b.result
                /\ expandedNodes' = collectExpandedNodes(b.result)
                /\ treeFrom' = b.n
                /\ UNCHANGED error
        /\ UNCHANGED <<pageVars, tabId, selectedNode, showIslandsOnly, nFetch,
                       selectedFrom, keyEvent>>

\* fetchTree after its await, with catch and finally
FetchTreeResume ==
    \E b \in builds :
        /\ b.status # "sent"
        /\ builds' = builds \ {b}
        /\ isLoading' = FALSE
        /\ IF b.status = "rejected"
           THEN /\ error' = "Could not connect to the page"
                /\ UNCHANGED <<tree, expandedNodes, treeFrom>>
           ELSE IF b.result = Null
           THEN /\ error' = "Failed to get component tree from page"
                /\ UNCHANGED <<tree, expandedNodes, treeFrom>>
           ELSE /\ tree' = b.result
                /\ expandedNodes' = collectExpandedNodes(b.result)
                /\ treeFrom' = b.n
                /\ UNCHANGED error
        /\ UNCHANGED <<pageVars, tabId, selectedNode, showIslandsOnly, nFetch,
                       selectedFrom, keyEvent>>

---------------------------------------------------------------------------
(* Session Controller: the tree view and the toolbar *)

\* the tree view is rendered: !isLoading && !error && filteredTree
TreeViewShown == ~isLoading /\ error = NoError /\ filteredTree # Null

\* the TreeNodeItems rendered: a child is rendered when its parent is expanded
RenderedNodes == IF TreeViewShown THEN visibleNodes ELSE <<>>

toggleNode(nodeId) ==
    expandedNodes' = IF nodeId \in expandedNodes
                     THEN expandedNodes \ {nodeId}
                     ELSE expandedNodes \cup {nodeId}

\* the toggle button of a rendered node, shown when it has children
ToggleNode ==
    \E node \in {RenderedNodes[k] : k \in 1..Len(RenderedNodes)} :
        /\ Len(node.children) > 0
        /\ toggleNode(node.id)
        /\ UNCHANGED <<pageVars, tabId, tree, selectedNode, showIslandsOnly, isLoading,
                       error, builds, nFetch, historyVars>>

ExpandAll ==
    /\ nFetch > 0
    /\ expandedNodes' = IF tree = Null THEN expandedNodes ELSE collect(tree)
    /\ UNCHANGED <<pageVars, tabId, tree, selectedNode, showIslandsOnly, isLoading,
                   error, builds, nFetch, historyVars>>

CollapseAll ==
    /\ nFetch > 0
    /\ expandedNodes' = {}
    /\ UNCHANGED <<pageVars, tabId, tree, selectedNode, showIslandsOnly, isLoading,
                   error, builds, nFetch, historyVars>>

ToggleIslandsOnly ==
    /\ nFetch > 0
    /\ showIslandsOnly' = ~showIslandsOnly
    /\ UNCHANGED <<pageVars, tabId, tree, selectedNode, expandedNodes, isLoading,
                   error, builds, nFetch, historyVars>>

---------------------------------------------------------------------------
(* Highlighter: highlightElement and clearHighlight.  Each sends one       *)
(* function to the page and waits for nothing but its end; the function    *)
(* reads and writes the page only, so the call and its run are one step.   *)

\* the paths highlightElement is called with: the paths of the snapshot's nodes,
\* and paths of an older snapshot that name a child the page does not have
PathInputs(d) ==
    LET RECURSIVE PathsOf(_)
        PathsOf(node) ==
            LET n == node
            IN  {n.path, ChildPath(n.path, Len(n.children))} \cup
                UNION {PathsOf(n.children[k]) : k \in 1..Len(n.children)}
    IN  PathsOf(BuildTreeInPage(d, <<>>))

highlightElement ==
    \E path \in PathInputs(dom) :
        /\ IF tabId = 0
           THEN UNCHANGED <<overlay, lastRun>>
           ELSE /\ overlay' = HighlightInPage(dom, overlay, path)
                /\ lastRun' = [kind |-> "highlight", path |-> path,
                               element |-> ResolvePath(dom, path),
                               existing |-> overlay # <<>>]
        /\ UNCHANGED <<dom, tabId, sessionVars, builds, nFetch, historyVars>>

clearHighlight ==
    /\ IF tabId = 0
       THEN UNCHANGED <<overlay, lastRun>>
       ELSE /\ overlay' = ClearInPage(overlay)
            /\ lastRun' = [kind |-> "clear", path |-> <<>>, element |-> NoElement,
                           existing |-> overlay # <<>>]
    /\ UNCHANGED <<dom, tabId, sessionVars, builds, nFetch, historyVars>>

---------------------------------------------------------------------------
(* Session Controller: selection and keyboard navigation *)

\* scrollToElement(path): the call and the run of its function in the page
scrollToElement(path) ==
    IF tabId = 0
    THEN UNCHANGED lastRun
    ELSE lastRun' = [kind |-> "scroll", path |-> path,
                     element |-> ScrollInPage(dom, path), existing |-> overlay # <<>>]

\* setSelectedNode(node); scrollToElement(node.path), node of the snapshot `from`
Select(node, from) ==
    /\ selectedNode' = node
    /\ selectedFrom' = from
    /\ scrollToElement(node.path)

\* handleSelectNode: a click on the label of a rendered node
SelectNode ==
    \E node \in {RenderedNodes[k] : k \in 1..Len(RenderedNodes)} :
        /\ Select(node, treeFrom)
        /\ UNCHANGED <<dom, overlay, tabId, tree, showIslandsOnly, expandedNodes,
                       isLoading, error, builds, nFetch, treeFrom, keyEvent>>

\* the keys handleKeyDown has a case for
Keys == {"ArrowDown", "ArrowUp", "ArrowRight", "ArrowLeft", "Enter"}

\* visibleNodes.findIndex((n) => n.id === selectedNode.id), or -1
CurrentIndex(visible) ==
    IF selectedNode # Null /\ \E k \in 1..Len(visible) : visible[k].id = selectedNode.id
    THEN (CHOOSE k \in 1..Len(visible) :
              /\ visible[k].id = selectedNode.id
              /\ \A j \in 1..(k - 1) : visible[j].id # selectedNode.id) - 1
    ELSE -1

\* nothing but the event is changed
KeyOnly ==
    UNCHANGED <<lastRun, selectedNode, selectedFrom, expandedNodes>>

handleKeyDown(key) ==
    LET shown == filteredTree
        visible == visibleNodes
        currentIndex == CurrentIndex(visible)
        last == Len(visible) - 1
        hasChildren == Len(selectedNode.children) > 0
        isExpanded == selectedNode.id \in expandedNodes
    IN  /\ IF shown = Null \/ Len(visible) = 0
           THEN /\ keyEvent' = [key |-> key, defaultPrevented |-> FALSE]
                /\ KeyOnly
           ELSE /\ keyEvent' = [key |-> key, defaultPrevented |-> TRUE]
                /\ CASE key = "ArrowDown" ->
                         /\ Select(visible[(IF currentIndex + 1 < last
                                            THEN currentIndex + 1 ELSE last) + 1],
                                   treeFrom)
                         /\ UNCHANGED expandedNodes
                     [] key = "ArrowUp" ->
                         /\ Select(visible[(IF currentIndex - 1 > 0
                                            THEN currentIndex - 1 ELSE 0) + 1],
                                   treeFrom)
                         /\ UNCHANGED expandedNodes
                     [] key = "ArrowRight" ->
                         IF selectedNode = Null THEN KeyOnly
                         ELSE IF ~isExpanded /\ hasChildren
                         THEN /\ toggleNode(selectedNode.id)
                              /\ UNCHANGED <<lastRun, selectedNode, selectedFrom>>
                         ELSE IF hasChildren /\ isExpanded
                         THEN /\ Select(selectedNode.children[1], selectedFrom)
                              /\ UNCHANGED expandedNodes
                         ELSE KeyOnly
                     [] key = "ArrowLeft" ->
                         IF selectedNode = Null THEN KeyOnly
                         ELSE IF isExpanded /\ hasChildren
                         THEN /\ toggleNode(selectedNode.id)
                              /\ UNCHANGED <<lastRun, selectedNode, selectedFrom>>
                         ELSE LET parent == findParent(shown, selectedNode.id, Null)
                              IN  IF parent # Null
                                  THEN /\ Select(parent, treeFrom)
                                       /\ UNCHANGED expandedNodes
                                  ELSE KeyOnly
                     [] key = "Enter" ->
                         IF selectedNode = Null THEN KeyOnly
                         ELSE /\ scrollToElement(selectedNode.path)
                              /\ UNCHANGED <<selectedNode, selectedFrom, expandedNodes>>
        /\ UNCHANGED <<dom, overlay, tabId, tree, showIslandsOnly, isLoading, error,
                       builds, nFetch, treeFrom>>

\* a key is pressed while the tree panel has the focus
KeyDown == nFetch > 0 /\ \E key \in Keys : handleKeyDown(key)

---------------------------------------------------------------------------
(* Specifications *)

\* fetching and filtering
NextTree ==
    \/ Mount
    \/ Refresh
    \/ PageBuildTree
    \/ PageBuildNoResult
    \/ PageBuildRejected
    \/ FetchTreeResume
    \/ ToggleIslandsOnly

\* one fetch, then expanding and collapsing
NextExpand ==
    \/ Mount
    \/ PageBuildTree
    \/ FetchTreeResume
    \/ ToggleNode
    \/ ExpandAll
    \/ CollapseAll
    \/ ToggleIslandsOnly

NextHighlight ==
    \/ highlightElement
    \/ clearHighlight

\* one fetch, then the mouse and the keyboard on the tree
NextKeys ==
    \/ Mount
    \/ PageBuildTree
    \/ FetchTreeResume
    \/ SelectNode
    \/ KeyDown
    \/ ToggleNode
    \/ ExpandAll
    \/ CollapseAll
    \/ ToggleIslandsOnly

\* one fetch, then clicks on labels and keys, in either view
NextNavigate ==
    \/ Mount
    \/ PageBuildTree
    \/ FetchTreeResume
    \/ SelectNode
    \/ KeyDown
    \/ ToggleIslandsOnly

\* selecting, and refreshing under a selection
NextSelect ==
    \/ Mount
    \/ Refresh
    \/ PageBuildTree
    \/ FetchTreeResume
    \/ SelectNode
    \/ KeyDown

Next ==
    NextTree \/ NextExpand \/ NextHighlight \/ NextKeys \/ NextNavigate \/ NextSelect

\* the whole program over the pages of every shape
Spec == Init /\ [][Next]_vars

\* the tree builder and the islands-only filter over the pages of every shape
SpecTree == Init /\ [][NextTree]_vars

\* the expansion set and the flattened list over the pages of every shape
SpecExpand == Init /\ [][NextExpand]_vars

\* the tree builder over the pages whose islands carry attributes
SpecAttrs == InitAttrs /\ [][NextTree]_vars

\* selection and keyboard navigation over the pages of every shape
SpecKeys == Init /\ [][NextKeys]_vars

\* selection by click and navigation by key over the pages of every shape
SpecNavigate == Init /\ [][NextNavigate]_vars

\* a selection kept across refreshes, over the pages with at most two elements
SpecSelect == InitFew /\ [][NextSelect]_vars

\* refreshes, also overlapping ones, over the pages with at most one element
SpecFetch == InitFew /\ [][NextTree]_vars

\* the same, where the effect runs, every call is settled and every settled
\* call resumes its fetchTree
SpecFetchFair ==
    /\ SpecFetch
    /\ WF_vars(Mount)
    /\ WF_vars(PageBuildTree \/ PageBuildNoResult \/ PageBuildRejected)
    /\ WF_vars(FetchTreeResume)

\* the highlighter over the pages whose elements have boxes of every kind
SpecHighlight == InitRects /\ [][NextHighlight]_vars

---------------------------------------------------------------------------
(* Properties *)

\* the nodes of a tree
RECURSIVE Nodes(_)
Nodes(node) ==
    LET n == node
    IN  {n} \cup UNION {Nodes(n.children[k]) : k \in 1..Len(n.children)}

\* the snapshots there are: the current one and those of fulfilled calls
Snapshots ==
    (IF tree # Null THEN {tree} ELSE {}) \cup
    {b.result : b \in {x \in builds : x.result # Null}}

\* the index segments of a path, as texts
SegmentTexts(path) == IF path = <<>> THEN <<>> ELSE Split(path, ".")

RECURSIVE DotJoin(_)
DotJoin(texts) ==
    LET ts == texts
    IN  IF ts = <<>> THEN <<>>
        ELSE IF Len(ts) = 1 THEN ts[1]
        ELSE ts[1] \o <<".">> \o DotJoin(Tail(ts))

PathsWellFormed(t) ==
    /\ t.depth = 0
    /\ t.path = <<>>
    /\ \A n \in Nodes(t) :
        /\ n.depth = Len(SegmentTexts(n.path))
        /\ \A k \in 1..Len(n.children) :
              n.children[k].path =
                  DotJoin(Append(SegmentTexts(n.path), IndexToString(k - 1)))

\* C1: in every tree buildTreeInPage returns, a non-root node's path is its
\* parent's path with its zero-based sibling index appended (dot-joined), a
\* node's depth is the number of index segments of its path, and the root has
\* depth 0 and the empty path.
C1_PathAndDepth == \A t \in Snapshots : PathsWellFormed(t)

C1_Witness ==
    /\ tree # Null
    /\ \E n \in Nodes(tree) : n.depth = 2 /\ n.path = <<"0", ".", "1">>
    /\ \E n \in Nodes(tree) : n.depth = 1 /\ n.path = <<"0">>

\* C2: resolving the path of any node of a snapshot the way the highlighter
\* does, against the page the snapshot was built from, yields the element the
\* node was built from.
C2_PathRoundTrip ==
    \A t \in Snapshots : \A n \in Nodes(t) : ResolvePath(dom, n.path) = n.src

C2_Witness ==
    /\ tree # Null
    /\ \E n \in Nodes(tree) :
          /\ n.path = <<"1", ".", "0">>
          /\ ResolvePath(dom, n.path) = 3
          /\ n.src = 3


\* the ids of the nodes of a tree
Ids(t) == {n.id : n \in Nodes(t)}

\* the node of tree t with the given id
NodeOf(t, id) == CHOOSE n \in Nodes(t) : n.id = id

\* node n is an island or has an island somewhere below it
LeadsToIsland(n) == \E m \in Nodes(n) : m.isAstroIsland

\* a node and its copy in a filtered tree agree in everything but the children
SameButChildren(n, m) == [n EXCEPT !.children = <<>>] = [m EXCEPT !.children = <<>>]

\* C3 as stated: the islands-only filter keeps every island node with its whole
\* original subtree, unfiltered
C3_IslandSubtreeVerbatim ==
    (showIslandsOnly /\ tree # Null) =>
        \A n \in Nodes(tree) :
            n.isAstroIsland => (filteredTree # Null /\ n \in Nodes(filteredTree))

\* C3 amended: the islands-only filter keeps every island node (every field but
\* children unchanged) and filters beneath it as everywhere else: the nodes kept
\* below an island are exactly its descendants that are islands or have an
\* island below them.
C3_IslandKeptSubtreeFiltered ==
    (showIslandsOnly /\ tree # Null) =>
        \A n \in Nodes(tree) :
            n.isAstroIsland =>
                /\ filteredTree # Null
                /\ n.id \in Ids(filteredTree)
                /\ SameButChildren(n, NodeOf(filteredTree, n.id))
                /\ Ids(NodeOf(filteredTree, n.id)) =
                       {x.id : x \in {y \in Nodes(n) : y = n \/ LeadsToIsland(y)}}

\* an island with a non-island child that is dropped and an island child that is kept
C3_Witness ==
    /\ showIslandsOnly
    /\ tree # Null
    /\ \E n \in Nodes(tree) :
          /\ n.isAstroIsland
          /\ \E k \in 1..Len(n.children) : ~LeadsToIsland(n.children[k])
          /\ \E k \in 1..Len(n.children) : n.children[k].isAstroIsland
          /\ Len(NodeOf(filteredTree, n.id).children) = 1

\* C4: every non-island node the islands-only filter retains has
\* hasIslandDescendant true in the input tree, and the result is null when the
\* input tree holds no island.
C4_OnlyIslandsAndAncestors ==
    (showIslandsOnly /\ tree # Null) =>
        /\ filteredTree # Null =>
              \A m \in Nodes(filteredTree) :
                  ~m.isAstroIsland =>
                      /\ m.id \in Ids(tree)
                      /\ LeadsToIsland(NodeOf(tree, m.id))
                      /\ hasIslandDescendant(NodeOf(tree, m.id))
        /\ (\A n \in Nodes(tree) : ~n.isAstroIsland) => filteredTree = Null

\* a non-island node below the root is kept while another one is dropped
C4_Witness ==
    /\ showIslandsOnly
    /\ tree # Null
    /\ filteredTree # Null
    /\ \E m \in Nodes(filteredTree) : ~m.isAstroIsland /\ m.depth = 1
    /\ \E n \in Nodes(tree) : ~n.isAstroIsland /\ n.id \notin Ids(filteredTree)

\* id names a node of t that is an island or has an island below it, that is, a
\* node on the path from the root to some island
OnPathToIsland(t, id) == id \in Ids(t) /\ LeadsToIsland(NodeOf(t, id))

\* C5 as stated: every id of the auto-expand set lies on a path from the root
\* to an island
C5_AutoExpandOnIslandPaths ==
    tree # Null => \A id \in collectExpandedNodes(tree) : OnPathToIsland(tree, id)

\* C5 amended: every id of the auto-expand set is the root's id or lies on a
\* path from the root to an island (the root is in the set even when the tree
\* holds no island).
C5_AutoExpandRootOrIslandPaths ==
    tree # Null =>
        /\ tree.id \in collectExpandedNodes(tree)
        /\ \A id \in collectExpandedNodes(tree) :
              id = tree.id \/ OnPathToIsland(tree, id)

\* fetchTree has just installed the auto-expand set of a tree with an island
\* below the root and a branch that leads to no island
C5_Witness ==
    /\ tree # Null
    /\ expandedNodes = collectExpandedNodes(tree)
    /\ \E id \in expandedNodes : id # tree.id
    /\ \E n \in Nodes(tree) : n.id \notin expandedNodes

\* the ids of the proper ancestors of node n in tree t
AncestorIds(t, n) == {a.id : a \in {x \in Nodes(t) : x # n /\ n \in Nodes(x)}}

\* C6 as stated: the length of the flattened list is 1 plus the number of nodes
\* whose ancestors are all expanded (the root, which has no ancestor, counted)
C6_FlattenLengthAllNodes ==
    filteredTree # Null =>
        Len(visibleNodes) =
            1 + Cardinality({n \in Nodes(filteredTree) :
                                AncestorIds(filteredTree, n) \subseteq expandedNodes})

\* C6 amended: the length of the flattened list is 1 plus the number of nodes
\* other than the root whose ancestors are all expanded.
C6_FlattenLengthNonRoot ==
    filteredTree # Null =>
        Len(visibleNodes) =
            1 + Cardinality({n \in Nodes(filteredTree) \ {filteredTree} :
                                AncestorIds(filteredTree, n) \subseteq expandedNodes})

\* the root is expanded, one of its children with children of its own is
\* collapsed although a node below it is expanded
C6_Witness ==
    /\ filteredTree # Null
    /\ filteredTree.id \in expandedNodes
    /\ \E n \in Nodes(filteredTree) :
          /\ n.depth = 1
          /\ Len(n.children) > 0
          /\ n.id \notin expandedNodes
          /\ n.children[1].id \in expandedNodes
    /\ Len(visibleNodes) > 1
    /\ Len(visibleNodes) < Cardinality(Nodes(filteredTree))


\* C7 as stated: in every snapshot node props is undefined or a non-empty
\* mapping; an attribute that is absent, does not parse or denotes an empty
\* object never leaves an empty mapping
C7_PropsOnlyWhenNonEmpty ==
    \A t \in Snapshots : \A n \in Nodes(t) :
        \/ n.props = Undefined
        \/ n.props.type = "object" /\ DOMAIN n.props.map # {}

Frameworks == {"React", "Vue", "Svelte", "Solid", "Preact"}

\* the renderer-url of each framework's renderer
RendererOf(f) ==
    CASE f = "React" -> ReactRenderer
      [] f = "Vue" -> VueRenderer
      [] f = "Svelte" -> SvelteRenderer
      [] f = "Solid" -> SolidRenderer
      [] f = "Preact" -> PreactRenderer

\* C8 as stated: an island whose renderer-url is the renderer of React, Vue,
\* Svelte, Solid or Preact gets that framework, and a renderer-url containing
\* "preact" yields Preact
C8_FrameworkDetected ==
    \A t \in Snapshots : \A n \in Nodes(t) :
        n.isAstroIsland =>
            LET url == GetAttribute(dom, n.src, "renderer-url")
            IN  /\ \A f \in Frameworks :
                      (url # Null /\ url.s = RendererOf(f)) => n.framework = f
                /\ (url # Null /\ Includes(url.s, <<"p", "r", "e", "a", "c", "t">>))
                      => n.framework = "Preact"

\* the descendants of an element
RECURSIVE DescendantsOf(_, _)
DescendantsOf(d, el) ==
    LET cs == Children(d, el)
    IN  UNION {{cs[k]} \cup DescendantsOf(d, cs[k]) : k \in 1..Len(cs)}

IsSized(d, el) == d[el].rect.width > 0 /\ d[el].rect.height > 0

SetMin(S) == CHOOSE x \in S : \A y \in S : x <= y
SetMax(S) == CHOOSE x \in S : \A y \in S : x >= y

\* the smallest box around the boxes of the elements of S, as an overlay
UnionBox(d, S) ==
    LET left == SetMin({d[x].rect.left : x \in S})
        top == SetMin({d[x].rect.top : x \in S})
        right == SetMax({d[x].rect.left + d[x].rect.width : x \in S})
        bottom == SetMax({d[x].rect.top + d[x].rect.height : x \in S})
    IN  [top |-> top, left |-> left, width |-> right - left, height |-> bottom - top]

\* the last function run in the page was highlightElement's, on an element
\* without width and height that has children
ZeroSizedParentHighlighted ==
    /\ lastRun.kind = "highlight"
    /\ lastRun.element # NoElement
    /\ dom[lastRun.element].rect.width = 0
    /\ dom[lastRun.element].rect.height = 0
    /\ Len(Children(dom, lastRun.element)) > 0

\* C9: after highlightElement on an element of zero width and zero height that
\* has children, the overlay is the union box of all its descendants, at any
\* depth, that have positive width and height; with one such descendant it is
\* that descendant's box, and with none no overlay is rendered.
C9_OverlayIsUnionOfSizedDescendants ==
    ZeroSizedParentHighlighted =>
        LET S == {x \in DescendantsOf(dom, lastRun.element) : IsSized(dom, x)}
        IN  /\ S = {} => overlay = <<>>
            /\ S # {} => overlay = <<UnionBox(dom, S)>>
            /\ \A x \in S :
                  S = {x} =>
                      overlay = <<[top |-> dom[x].rect.top, left |-> dom[x].rect.left,
                                   width |-> dom[x].rect.width,
                                   height |-> dom[x].rect.height]>>

\* the highlighted element's only sized descendants are a grandchild below a
\* child without a box and one more element, and the overlay is neither's box
C9_Witness ==
    /\ ZeroSizedParentHighlighted
    /\ overlay # <<>>
    /\ LET e == lastRun.element
           S == {x \in DescendantsOf(dom, e) : IsSized(dom, x)}
       IN  /\ Cardinality(S) = 2
           /\ \E c \in S : \A k \in 1..Len(Children(dom, e)) : Children(dom, e)[k] # c
           /\ \A x \in S : overlay[1].width # dom[x].rect.width

\* C10: whatever highlightElement and clearHighlight calls have run in the
\* page, in whatever order, the page holds at most one overlay element; after
\* a clearHighlight call it holds none; and a clearHighlight call that finds no
\* overlay changes nothing in the page.
C10_SingleOverlay ==
    /\ [](Len(overlay) <= 1 /\ (lastRun.kind = "clear" => overlay = <<>>))
    /\ [][(overlay = <<>> /\ lastRun'.kind = "clear")
            => (overlay' = overlay /\ dom' = dom)]_vars

\* highlightElement has drawn the overlay of an element below body
C10_Witness ==
    /\ Len(overlay) = 1
    /\ lastRun.kind = "highlight"
    /\ lastRun.element # NoElement
    /\ lastRun.element # Body
    /\ overlay[1].width = dom[lastRun.element].rect.width


---------------------------------------------------------------------------
\* C11 as stated: a highlight request whose path does not resolve leaves the
\* page, any overlay already displayed included, and the session state as
\* they were
C11_UnresolvedIsNoOp ==
    [][(lastRun'.kind = "highlight" /\ lastRun'.element = NoElement)
        => (overlay' = overlay /\ dom' = dom /\ UNCHANGED <<sessionVars, builds>>)]_vars

\* C11 amended: a highlight request whose path does not resolve draws no
\* overlay and removes the one already displayed; the elements of the page
\* and the session state are left as they were
C11_UnresolvedRemovesOverlay ==
    [][(lastRun'.kind = "highlight" /\ lastRun'.element = NoElement)
        => (overlay' = <<>> /\ dom' = dom /\ UNCHANGED <<sessionVars, builds>>)]_vars

\* an unresolved request has run in a page that showed an overlay
C11_Witness ==
    /\ lastRun.kind = "highlight"
    /\ lastRun.element = NoElement
    /\ lastRun.existing
    /\ overlay = <<>>

---------------------------------------------------------------------------
\* the state the spec calls ready
Ready == ~isLoading /\ error = NoError /\ tree # Null

\* a fetchTree invocation begins: loading with no error, or at once the
\* error of the missing tab
RefreshBegins ==
    (nFetch' = nFetch + 1) =>
        IF tabId = 0
        THEN ~isLoading' /\ error' = "No inspected tab found" /\ builds' = builds
        ELSE isLoading' /\ error' = NoError
             /\ \E b \in builds' : b.n = nFetch' /\ b.status = "sent"

\* the call of a fetchTree invocation has been settled and the invocation ends
RefreshEnds ==
    \A b \in builds :
        (b.status # "sent" /\ \A c \in builds' : c.n # b.n) =>
            /\ ~isLoading'
            /\ IF b.status = "rejected"
               THEN /\ error' = "Could not connect to the page"
                    /\ UNCHANGED <<tree, expandedNodes>>
               ELSE IF b.result = Null
               THEN /\ error' = "Failed to get component tree from page"
                    /\ UNCHANGED <<tree, expandedNodes>>
               ELSE /\ tree' = b.result
                    /\ expandedNodes' = collectExpandedNodes(b.result)
                    /\ error' = error
                    /\ ~b.overlapped => Ready'

---------------------------------------------------------------------------
\* TreeNodeItem's isSelected for a rendered node: selectedNode?.id === node.id
ShownSelected(node) == selectedNode # Null /\ selectedNode.id = node.id

\* C13: a selection made on an earlier snapshot is not matched by id against
\* the nodes of the snapshot installed since: none of them is shown as
\* selected, and the selection gives no position in the visible list
C13_NoStaleSelectionMatch ==
    (selectedNode # Null /\ tree # Null /\ selectedFrom # treeFrom) =>
        /\ \A k \in 1..Len(RenderedNodes) : ~ShownSelected(RenderedNodes[k])
        /\ CurrentIndex(visibleNodes) = -1

---------------------------------------------------------------------------
\* the selected node is a node of the currently filtered tree, not its root
SelectedBelowRoot ==
    /\ selectedNode # Null
    /\ filteredTree # Null
    /\ selectedNode \in Nodes(filteredTree)
    /\ selectedNode # filteredTree

\* the node of tree t that has n among its children
ParentIn(t, n) ==
    CHOOSE p \in Nodes(t) : \E k \in 1..Len(p.children) : p.children[k] = n

\* C14: Left on a selected non-root node of the filtered tree that has
\* children: when it is expanded the key collapses it and the selection
\* stays; when it is collapsed (as it is after that) the key selects its
\* parent in the filtered tree and the expansion set stays
C14_LeftCollapsesThenParent ==
    [][(handleKeyDown("ArrowLeft") /\ SelectedBelowRoot
            /\ Len(selectedNode.children) > 0)
        => IF selectedNode.id \in expandedNodes
           THEN /\ expandedNodes' = expandedNodes \ {selectedNode.id}
                /\ selectedNode' = selectedNode
           ELSE /\ selectedNode' = ParentIn(filteredTree, selectedNode)
                /\ expandedNodes' = expandedNodes]_vars

\* Left has moved the selection from a collapsed node with children, itself
\* below the root, to its parent
C14_Witness ==
    /\ keyEvent = [key |-> "ArrowLeft", defaultPrevented |-> TRUE]
    /\ SelectedBelowRoot
    /\ lastRun.kind = "scroll" /\ lastRun.path = selectedNode.path
    /\ \E k \in 1..Len(selectedNode.children) :
          /\ Len(selectedNode.children[k].children) > 0
          /\ selectedNode.children[k].id \notin expandedNodes

---------------------------------------------------------------------------
\* C15: whatever the session state, the default handling of a key that
\* handleKeyDown has a case for (the four arrows and Enter) is suppressed
C15_DefaultPrevented ==
    keyEvent # NoKeyEvent => keyEvent.defaultPrevented

---------------------------------------------------------------------------
\* the last function run in the page was highlightElement's, on an element
\* that resolved
ElementHighlighted == lastRun.kind = "highlight" /\ lastRun.element # NoElement

\* exactly one of the native width and height is zero
OneZeroDimension(d, el) ==
    (d[el].rect.width = 0) # (d[el].rect.height = 0)

\* the element's native rectangle, as an overlay
OwnBox(d, el) ==
    [top |-> d[el].rect.top, left |-> d[el].rect.left,
     width |-> d[el].rect.width, height |-> d[el].rect.height]

\* C16 as stated: the rectangle is synthesized from descendants only when both
\* native dimensions are zero (and there are children); with exactly one
\* zero dimension nothing is synthesized, so the native rectangle, which has
\* a zero dimension, decides and no overlay is drawn
C16_SynthesisOnlyWhenBothZero ==
    (ElementHighlighted /\ OneZeroDimension(dom, lastRun.element)) => overlay = <<>>

\* C16 amended: the rectangle is synthesized from descendants whenever the
\* native width or the native height is zero, either one, and the element has
\* children: the overlay is then the union box of the descendants with
\* positive width and height, or absent when there is none; an element with
\* positive width and height gets its native rectangle
C16_SynthesisWhenEitherZero ==
    ElementHighlighted =>
        LET el == lastRun.element
            S == {x \in DescendantsOf(dom, el) : IsSized(dom, x)}
        IN  IF IsSized(dom, el) THEN overlay = <<OwnBox(dom, el)>>
            ELSE IF S = {} THEN overlay = <<>>
            ELSE overlay = <<UnionBox(dom, S)>>

\* an element with a width but no height has been highlighted by the box of
\* its sized descendants
C16_Witness ==
    /\ ElementHighlighted
    /\ OneZeroDimension(dom, lastRun.element)
    /\ overlay # <<>>
    /\ overlay[1].height > 0
    /\ overlay[1].width # dom[lastRun.element].rect.width

---------------------------------------------------------------------------
\* the Tree Builder calls in flight: sent and not yet settled
InFlight == {b \in builds : b.status = "sent"}

\* C17: at most one Tree Builder call is in flight at any time
C17_OneBuildInFlight == Cardinality(InFlight) <= 1

---------------------------------------------------------------------------
\* C18: a key press that changes the selection selects a node of the flattened
\* visible list of the currently filtered tree
C18_KeySelectsVisibleNode ==
    [][(KeyDown /\ selectedNode' # selectedNode)
        => \E k \in 1..Len(visibleNodes') : visibleNodes'[k].id = selectedNode'.id]_vars

---------------------------------------------------------------------------
\* the fetchTree invocation of call b resumes in this step
Resumes(b) == b.status # "sent" /\ \A c \in builds' : c.n # b.n

\* loading stays set while the call of the newest refresh has not resumed
C19_LoadingWhileNewestPending ==
    [](\A b \in builds : b.n = nFetch => isLoading)

\* the snapshot of an older refresh never replaces that of a newer one
C19_NoOlderSnapshot == [][treeFrom' >= treeFrom]_vars

\* the failure of a refresh older than the one the snapshot came from does not
\* bring up an error
C19_NoOlderError ==
    [][\A b \in builds : (Resumes(b) /\ b.n < treeFrom) => error' = NoError]_vars

\* C19: when refreshes overlap, the session state is that of the most
\* recently triggered one: an older snapshot never replaces a newer one, an
\* older failure is not displayed after a newer success, and loading is not
\* cleared while the newest call is pending
C19_LatestRefreshWins ==
    /\ C19_LoadingWhileNewestPending
    /\ C19_NoOlderSnapshot
    /\ C19_NoOlderError

============================================================================
